---- MODULE Spec2Model ----
(***************************************************************************)
(* Verification model of the unified-calendar client:                      *)
(*   - the zustand calendar store  (src/stores/calendarStore.ts)           *)
(*   - the Apple service wrappers  (src/services/apple*Service.ts)         *)
(*   - the auth provider           (src/contexts/AuthContext.tsx)          *)
(*                                                                         *)
(* JavaScript runs one task at a time; an async function runs up to its    *)
(* next `await` in one step.  Every activation of an async function is a   *)
(* record in `calls` (kept in issue order); its `pc` names the await it is *)
(* suspended at.  Optional values (undefined / null) are sets of at most   *)
(* one element: {} is "absent", {v} is "present with value v".             *)
(***************************************************************************)
EXTENDS Integers, Sequences, FiniteSets, TLC

VARIABLES
    events,           \* store.events            (calendarStore.ts:109)
    selectedSources,  \* store.selectedSources   (calendarStore.ts:111)
    isLoading,        \* store.isLoading         (calendarStore.ts:114)
    appleConnected,   \* store.appleConnected    (calendarStore.ts:115)
    storage,          \* AsyncStorage: keys auth_token and user
    token,            \* AuthProvider state      (AuthContext.tsx:33)
    user,             \* AuthProvider state      (AuthContext.tsx:32)
    authLoading,      \* AuthProvider isLoading  (AuthContext.tsx:34)
    connection,       \* MicrosoftCalendarConnection state: isLoading and
                      \* connected (appleCalendarService.ts:394-395)
    calls,            \* activations of async functions, in issue order
    ev                \* history: what the last step did and delivered

vars == <<events, selectedSources, isLoading, appleConnected,
          storage, token, user, authLoading, connection, calls, ev>>

storeVars == <<events, selectedSources, isLoading, appleConnected>>
authVars  == <<token, user, authLoading>>

----------------------------------------------------------------------------
(* Bounds *)

MaxCalls  == 2   \* activations that may be outstanding at the same time
NumEvents == 2   \* distinct event ids the backend may return
MaxBucket == 1   \* events per provider bucket in one response
MaxTitle  == 2   \* characters in the title field of a form
MaxGap    == 2   \* latest instant the date fields of a form may hold
MaxTime   == 7   \* latest instant of the clock and of event timestamps

----------------------------------------------------------------------------
(* Values *)

EventIds == 1..NumEvents

\* the ids the calendar screen passes to toggleSource (calendar.tsx:98,124)
ToggleIds == {"google", "local"}

InitialSources == <<"google", "apple", "microsoft">>

RECURSIVE SeqsUpTo(_, _)
SeqsUpTo(S, n) ==
    IF n = 0 THEN {<<>>}
    ELSE LET shorter == SeqsUpTo(S, n - 1)
         IN  shorter \cup {Append(s, x) : s \in shorter, x \in S}

Range(s) == {s[i] : i \in 1..Len(s)}

NoDup(s) == Cardinality(Range(s)) = Len(s)

\* a bucket of the GET /api/events body: absent, or an array of events
BucketValues ==
    {{}} \cup {{s} : s \in {b \in SeqsUpTo(EventIds, MaxBucket) : NoDup(b)}}

Items(b) == IF b = {} THEN <<>> ELSE CHOOSE s \in b : TRUE

\* bodies of a 2xx answer to GET /api/events; an event id occurs once
Responses ==
    {[local_events |-> l, google_events |-> g, apple_events |-> a,
      microsoft_events |-> m, apple_connected |-> c] :
        <<l, g, a, m, c>> \in
            {t \in BucketValues \X BucketValues \X BucketValues
                        \X BucketValues \X {{}, {TRUE}, {FALSE}} :
                NoDup(Items(t[1]) \o Items(t[2]) \o Items(t[3])
                        \o Items(t[4]))}}

\* axios failures: status {} is "no response" (transport error or timeout)
HttpErrorStatus == {404, 422, 500}

Errors == [status : {{}} \cup {{s} : s \in HttpErrorStatus}]

----------------------------------------------------------------------------
(* Activation records and the step history *)

\* op: the function; pc: the await it is suspended at; src: the
\* calendar_sources its GET carries; by: the list toggleSource stored when
\* it started this fetch (kept until the GET is issued); late: a fetch
\* issued after this one has already delivered; body: the response data a
\* login or register holds while it persists it.  For a logout, late says
\* that a sign-in wrote to storage while the logout was running
Call(op, pc, src, by, late) ==
    [op |-> op, pc |-> pc, src |-> src, by |-> by, late |-> late,
     body |-> {}]

\* act: the step; op: the function it belongs to; out: how the promise of
\* that activation stands after the step; resp / err: the HTTP answer the
\* step consumed; late: a fetch issued after this one had delivered before
\* arg: the argument of the call; thrown: the value the promise rejected
\* with; ret: the value it resolved to; status: the status of a 2xx answer;
\* alerts: the titles of the Alert.alert calls of the step, in order; hdr:
\* the Authorization header of the request the step issued; src: the
\* calendar_sources of the request whose answer the step consumed;
\* onConnected: how many times the step called the onConnected prop
Ev(act, op, out) ==
    [act |-> act, op |-> op, out |-> out,
     resp |-> {}, err |-> {}, late |-> FALSE,
     arg |-> {}, thrown |-> {}, ret |-> "none", status |-> {},
     alerts |-> <<>>, hdr |-> {}, src |-> {}, onConnected |-> 0]

NoEv == Ev("none", "none", "none")

RemoveAt(s, i) == SubSeq(s, 1, i - 1) \o SubSeq(s, i + 1, Len(s))

\* a response delivered to call i overtakes every fetch issued before it
Overtake(s, i) ==
    [j \in 1..Len(s) |->
        IF j < i /\ s[j].pc \in {"f_token", "f_get"}
        THEN [s[j] EXCEPT !.late = TRUE] ELSE s[j]]

\* a sign-in writes to storage: every logout that is running is overlapped
Overlap(s) ==
    [j \in 1..Len(s) |->
        IF s[j].op = "logout" THEN [s[j] EXCEPT !.late = TRUE] ELSE s[j]]

----------------------------------------------------------------------------
(* calendarStore.ts: apiClient *)

\* `Bearer ${token}` with the result of AsyncStorage.getItem('auth_token'):
\* a missing key reads as null and the template prints it
Bearer(t) == IF t = {} THEN "Bearer null" ELSE "Bearer " \o (CHOOSE x \in t : TRUE)

\* mutant: the response interceptor alerts on every status
InterceptorAlerts_always(e) ==
    IF e.status # {} THEN <<"Error">> ELSE <<"Network Error">>

\* the response interceptor's error handler: an answer with a status other
\* than 422 and 404 raises 'Error'; no answer raises 'Network Error'
InterceptorAlerts(e) ==
    IF e.status # {}
    THEN IF e.status # {422} /\ e.status # {404} THEN <<"Error">> ELSE <<>>
    ELSE <<"Network Error">>

\* the catch block of updateEvent raises an alert of its own on 422 and 404
CatchAlerts(op, e) ==
    IF op = "updateEvent" /\ e.status = {422} THEN <<"Validation Error">>
    ELSE IF op = "updateEvent" /\ e.status = {404} THEN <<"Event Not Found">>
    ELSE <<>>

----------------------------------------------------------------------------
(* calendarStore.ts: fetchEvents *)

\* mutant: the apple and google buckets spread in the wrong order
AllEvents_swapped(r) ==
    Items(r.local_events) \o Items(r.apple_events)
        \o Items(r.google_events) \o Items(r.microsoft_events)

\* const { local_events = [], ... } = response.data; [...local, ...google, ...]
AllEvents(r) ==
    Items(r.local_events) \o Items(r.google_events)
        \o Items(r.apple_events) \o Items(r.microsoft_events)

\* mutant: the flag is derived from the bucket alone
AppleFlag_bucketonly(r) == Len(Items(r.apple_events)) > 0

\* apple_events.length > 0 || response.data.apple_connected === true
AppleFlag(r) ==
    Len(Items(r.apple_events)) > 0 \/ r.apple_connected = {TRUE}

\* selectedSources.includes(id) ? filter(x => x !== id) : [...selectedSources, id]
RECURSIVE Without(_, _)
Without(s, id) ==
    IF s = <<>> THEN <<>>
    ELSE IF Head(s) = id THEN Without(Tail(s), id)
    ELSE <<Head(s)>> \o Without(Tail(s), id)

\* mutant: the filter keeps the toggled id and drops the others
Toggled_inverted(s, id) ==
    IF id \in Range(s) THEN <<id>> ELSE Append(s, id)

Toggled(s, id) == IF id \in Range(s) THEN Without(s, id) ELSE Append(s, id)

\* a caller (screen mount, pull-to-refresh) calls fetchEvents():
\* runs to the await of AsyncStorage.getItem
FetchStart ==
    /\ Len(calls) < MaxCalls
    /\ isLoading' = TRUE
    /\ calls' = Append(calls, Call("fetchEvents", "f_token", {}, {}, FALSE))
    /\ ev' = Ev("FetchStart", "fetchEvents", "pending")
    /\ UNCHANGED <<connection,
                   events, selectedSources, appleConnected, storage, authVars>>

\* toggleSource(id): set the new list, then call fetchEvents() without await
ToggleSource(id) ==
    /\ Len(calls) < MaxCalls
    /\ selectedSources' = Toggled(selectedSources, id)
    /\ isLoading' = TRUE
    /\ calls' = Append(calls,
            Call("fetchEvents", "f_token", {}, {selectedSources'}, FALSE))
    /\ ev' = [Ev("ToggleSource", "fetchEvents", "pending") EXCEPT !.arg = {id}]
    /\ UNCHANGED <<connection, events, appleConnected, storage, authVars>>

\* the token read resolves: read selectedSources and issue GET /api/events
FetchToken(i) ==
    /\ calls[i].pc = "f_token"
    /\ calls' = [calls EXCEPT ![i].pc = "f_get", ![i].src = {selectedSources},
                              ![i].by = {}]
    /\ ev' = [Ev("FetchToken", calls[i].op, "pending") EXCEPT
                !.hdr = {Bearer(storage.auth_token)}]
    /\ UNCHANGED <<connection, storeVars, storage, authVars>>

\* what the caller awaiting the refresh resolves to once fetchEvents() is
\* over: store connectAppleCalendar returns true, the others nothing
AfterRefresh(op) ==
    IF op = "connectAppleCalendar" THEN "true" ELSE "undefined"

\* mutant: request sequencing, a response that was overtaken is dropped
FetchSucceed_sequenced(i, r) ==
    /\ calls[i].pc = "f_get"
    /\ events' = IF calls[i].late THEN events ELSE AllEvents(r)
    /\ isLoading' = FALSE
    /\ appleConnected' = IF calls[i].late THEN appleConnected ELSE AppleFlag(r)
    /\ calls' = RemoveAt(Overtake(calls, i), i)
    /\ ev' = [Ev("FetchSucceed", calls[i].op, "resolved") EXCEPT
                !.resp = {r}, !.late = calls[i].late,
                !.ret = AfterRefresh(calls[i].op), !.src = calls[i].src]
    /\ UNCHANGED <<connection, selectedSources, storage, authVars>>

\* the GET resolves: build the list and set it
FetchSucceed(i, r) ==
    /\ calls[i].pc = "f_get"
    /\ events' = AllEvents(r)
    /\ isLoading' = FALSE
    /\ appleConnected' = AppleFlag(r)
    /\ calls' = RemoveAt(Overtake(calls, i), i)
    /\ ev' = [Ev("FetchSucceed", calls[i].op, "resolved") EXCEPT
                !.resp = {r}, !.late = calls[i].late,
                !.ret = AfterRefresh(calls[i].op), !.src = calls[i].src]
    /\ UNCHANGED <<connection, selectedSources, storage, authVars>>

\* mutant: the catch block resets the list
FetchFail_clearing(i, e) ==
    /\ calls[i].pc = "f_get"
    /\ events' = <<>>
    /\ isLoading' = FALSE
    /\ calls' = RemoveAt(calls, i)
    /\ ev' = [Ev("FetchFail", calls[i].op, "resolved") EXCEPT
                !.err = {e}, !.ret = AfterRefresh(calls[i].op)]
    /\ UNCHANGED <<connection,
                   selectedSources, appleConnected, storage, authVars>>

\* mutant: the catch block clears the flag and throws the error on
FetchFail_rethrowing(i, e) ==
    /\ calls[i].pc = "f_get"
    /\ isLoading' = FALSE
    /\ calls' = RemoveAt(calls, i)
    /\ ev' = [Ev("FetchFail", calls[i].op, "rejected") EXCEPT
                !.err = {e}, !.thrown = {e},
                !.alerts = InterceptorAlerts(e)]
    /\ UNCHANGED <<connection,
                   events, selectedSources, appleConnected, storage, authVars>>

\* mutant: the catch block logs and leaves the loading flag alone
FetchFail_stuck(i, e) ==
    /\ calls[i].pc = "f_get"
    /\ calls' = RemoveAt(calls, i)
    /\ ev' = [Ev("FetchFail", calls[i].op, "resolved") EXCEPT
                !.err = {e}, !.ret = AfterRefresh(calls[i].op),
                !.alerts = InterceptorAlerts(e)]
    /\ UNCHANGED <<connection, storeVars, storage, authVars>>

\* the GET rejects: the interceptor runs, then catch, log, clear the flag
FetchFail(i, e) ==
    /\ calls[i].pc = "f_get"
    /\ isLoading' = FALSE
    /\ calls' = RemoveAt(calls, i)
    /\ ev' = [Ev("FetchFail", calls[i].op, "resolved") EXCEPT
                !.err = {e}, !.ret = AfterRefresh(calls[i].op),
                !.alerts = InterceptorAlerts(e)]
    /\ UNCHANGED <<connection,
                   events, selectedSources, appleConnected, storage, authVars>>

----------------------------------------------------------------------------
(* calendarStore.ts: createEvent, updateEvent, deleteEvent, respondToInvite *)

MutOps == {"createEvent", "updateEvent", "deleteEvent", "respondToInvite"}

\* the operation is called: runs to the await of AsyncStorage.getItem
MutStart(op) ==
    /\ Len(calls) < MaxCalls
    /\ calls' = Append(calls, Call(op, "token", {}, {}, FALSE))
    /\ ev' = Ev("MutStart", op, "pending")
    /\ UNCHANGED <<connection, storeVars, storage, authVars>>

\* the token read resolves: issue POST / PUT / DELETE / PATCH
MutToken(i) ==
    /\ calls[i].op \in MutOps
    /\ calls[i].pc = "token"
    /\ calls' = [calls EXCEPT ![i].pc = "http"]
    /\ ev' = [Ev("MutToken", calls[i].op, "pending") EXCEPT
                !.hdr = {Bearer(storage.auth_token)}]
    /\ UNCHANGED <<connection, storeVars, storage, authVars>>

\* mutant: the request succeeded and the operation resolves without refresh
MutHttpOk_norefresh(i) ==
    /\ calls[i].op \in MutOps
    /\ calls[i].pc = "http"
    /\ calls' = RemoveAt(calls, i)
    /\ ev' = Ev("HttpOk", calls[i].op, "resolved")
    /\ UNCHANGED <<connection, storeVars, storage, authVars>>

\* mutant: the operation patches the list itself before refreshing
MutHttpOk_optimistic(i) ==
    /\ calls[i].op \in MutOps
    /\ calls[i].pc = "http"
    /\ events' = IF events = <<>> THEN <<1>> ELSE Tail(events)
    /\ isLoading' = TRUE
    /\ calls' = [calls EXCEPT ![i].pc = "f_token"]
    /\ ev' = Ev("HttpOk", calls[i].op, "pending")
    /\ UNCHANGED <<connection,
                   selectedSources, appleConnected, storage, authVars>>

\* the request resolves: await get().fetchEvents(), which runs to its
\* own token read
MutHttpOk(i) ==
    /\ calls[i].op \in MutOps
    /\ calls[i].pc = "http"
    /\ isLoading' = TRUE
    /\ calls' = [calls EXCEPT ![i].pc = "f_token"]
    /\ ev' = Ev("HttpOk", calls[i].op, "pending")
    /\ UNCHANGED <<connection,
                   events, selectedSources, appleConnected, storage, authVars>>

\* mutant: the catch block logs and swallows the error
MutHttpFail_swallowed(i, e) ==
    /\ calls[i].op \in MutOps
    /\ calls[i].pc = "http"
    /\ calls' = RemoveAt(calls, i)
    /\ ev' = [Ev("HttpFail", calls[i].op, "resolved") EXCEPT !.err = {e}]
    /\ UNCHANGED <<connection, storeVars, storage, authVars>>

\* mutant: deleteEvent drops the head of the list when its request fails
MutHttpFail_pruning(i, e) ==
    /\ calls[i].op \in MutOps
    /\ calls[i].pc = "http"
    /\ calls' = RemoveAt(calls, i)
    /\ events' = IF calls[i].op = "deleteEvent" /\ events # <<>>
                 THEN Tail(events) ELSE events
    /\ ev' = [Ev("HttpFail", calls[i].op, "rejected") EXCEPT
                !.err = {e}, !.thrown = {e},
                !.alerts = InterceptorAlerts(e) \o CatchAlerts(calls[i].op, e)]
    /\ UNCHANGED <<connection,
                   selectedSources, isLoading, appleConnected, storage,
                   authVars>>

\* the request rejects: the interceptor runs, then catch, log (updateEvent
\* also alerts), throw error
MutHttpFail(i, e) ==
    /\ calls[i].op \in MutOps
    /\ calls[i].pc = "http"
    /\ calls' = RemoveAt(calls, i)
    /\ ev' = [Ev("HttpFail", calls[i].op, "rejected") EXCEPT
                !.err = {e}, !.thrown = {e},
                !.alerts = InterceptorAlerts(e) \o CatchAlerts(calls[i].op, e)]
    /\ UNCHANGED <<connection, storeVars, storage, authVars>>

----------------------------------------------------------------------------
(* Apple connect and sync: calendarStore.ts connectAppleCalendar and       *)
(* syncAppleEvents, appleAuthService.ts connectAppleCalendar and           *)
(* syncAppleCalendar, appleCalendarService.ts syncEvents                   *)

StoreAppleOps == {"connectAppleCalendar", "syncAppleEvents"}

ServiceAppleOps == {"AppleAuthService.connectAppleCalendar",
                    "AppleAuthService.syncAppleCalendar",
                    "AppleCalendarService.syncEvents"}

AppleOps == StoreAppleOps \cup ServiceAppleOps

\* statuses axios resolves with (validateStatus accepts every 2xx)
OkStatus == {200, 201}

AppleStart(op) ==
    /\ Len(calls) < MaxCalls
    /\ calls' = Append(calls, Call(op, "token", {}, {}, FALSE))
    /\ ev' = Ev("AppleStart", op, "pending")
    /\ UNCHANGED <<connection, storeVars, storage, authVars>>

\* the token read resolves.  The services return (or throw inside their
\* try block and return from the catch) when no token is stored; the store
\* does not look at the token and issues the POST
AppleToken(i) ==
    /\ calls[i].op \in AppleOps
    /\ calls[i].pc = "token"
    /\ IF calls[i].op \in ServiceAppleOps /\ storage.auth_token = {}
       THEN /\ calls' = RemoveAt(calls, i)
            /\ ev' = [Ev("NoToken", calls[i].op, "resolved") EXCEPT
                        !.ret = "failure"]
       ELSE /\ calls' = [calls EXCEPT ![i].pc = "http"]
            /\ ev' = [Ev("AppleToken", calls[i].op, "pending") EXCEPT
                        !.hdr = {Bearer(storage.auth_token)}]
    /\ UNCHANGED <<connection, storeVars, storage, authVars>>

\* the POST resolves with a 2xx status
AppleHttpOk(i, st) ==
    /\ calls[i].op \in AppleOps
    /\ calls[i].pc = "http"
    /\ LET op == calls[i].op IN
       CASE op = "connectAppleCalendar" /\ st = 200 ->
              \* set({ appleConnected: true }); await get().fetchEvents()
              /\ appleConnected' = TRUE
              /\ isLoading' = TRUE
              /\ calls' = [calls EXCEPT ![i].pc = "f_token"]
              /\ ev' = [Ev("HttpOk", op, "pending") EXCEPT !.status = {st}]
         [] op = "connectAppleCalendar" /\ st # 200 ->
              /\ calls' = RemoveAt(calls, i)
              /\ ev' = [Ev("HttpOk", op, "resolved") EXCEPT
                          !.status = {st}, !.ret = "false"]
              /\ UNCHANGED <<appleConnected, isLoading>>
         [] op = "syncAppleEvents" ->
              /\ isLoading' = TRUE
              /\ calls' = [calls EXCEPT ![i].pc = "f_token"]
              /\ ev' = [Ev("HttpOk", op, "pending") EXCEPT !.status = {st}]
              /\ UNCHANGED appleConnected
         [] op \in ServiceAppleOps ->
              /\ calls' = RemoveAt(calls, i)
              /\ ev' = [Ev("HttpOk", op, "resolved") EXCEPT
                          !.status = {st},
                          !.ret = IF st = 200 THEN "success" ELSE "failure"]
              /\ UNCHANGED <<appleConnected, isLoading>>
    /\ UNCHANGED <<connection, events, selectedSources, storage, authVars>>

\* mutant: every store operation re-throws from its catch block
AppleHttpFail_rethrowing(i, e) ==
    /\ calls[i].op \in AppleOps
    /\ calls[i].pc = "http"
    /\ calls' = RemoveAt(calls, i)
    /\ ev' = IF calls[i].op \in StoreAppleOps
             THEN [Ev("HttpFail", calls[i].op, "rejected") EXCEPT
                      !.err = {e}, !.thrown = {e}]
             ELSE [Ev("HttpFail", calls[i].op, "resolved") EXCEPT
                      !.err = {e}, !.ret = "failure"]
    /\ UNCHANGED <<connection, storeVars, storage, authVars>>

\* the POST rejects: each catch block logs; store connectAppleCalendar
\* returns false, store syncAppleEvents throws error, the services return
\* {success: false, error}
AppleHttpFail(i, e) ==
    /\ calls[i].op \in AppleOps
    /\ calls[i].pc = "http"
    /\ calls' = RemoveAt(calls, i)
    /\ ev' = CASE calls[i].op = "connectAppleCalendar" ->
                    [Ev("HttpFail", calls[i].op, "resolved") EXCEPT
                        !.err = {e}, !.ret = "false",
                        !.alerts = InterceptorAlerts(e)]
               [] calls[i].op = "syncAppleEvents" ->
                    [Ev("HttpFail", calls[i].op, "rejected") EXCEPT
                        !.err = {e}, !.thrown = {e},
                        !.alerts = InterceptorAlerts(e)]
               [] calls[i].op \in ServiceAppleOps ->
                    [Ev("HttpFail", calls[i].op, "resolved") EXCEPT
                        !.err = {e}, !.ret = "failure"]
    /\ UNCHANGED <<connection, storeVars, storage, authVars>>

----------------------------------------------------------------------------
(* AuthContext.tsx: AuthProvider *)

AuthOps == {"login", "register"}

Users == {[id |-> "1", email |-> "a@x", name |-> "A"],
          [id |-> "2", email |-> "b@x", name |-> "B"]}

\* JSON.stringify / JSON.parse of a user record
Stringify(u) == <<"json", u>>

Parse(s) == s[2]

\* data of a successful POST /api/auth/login or /api/auth/register
AuthBodies ==
    {[access_token |-> "t" \o u.id, user |-> u] : u \in Users}

\* axios errors of the auth POST: the payload's detail when the backend
\* sent one, and the message axios always sets
AuthErrors ==
    [detail : {{}, {"Invalid credentials"}},
     message : {"Network Error", "Request failed with status code 401"}]

\* error.response?.data?.detail || error.message || fallback
ErrorMessage(e, fallback) ==
    IF e.detail # {} /\ e.detail # {""} THEN CHOOSE d \in e.detail : TRUE
    ELSE IF e.message # "" THEN e.message
    ELSE fallback

Fallback(op) == IF op = "login" THEN "Login failed" ELSE "Registration failed"

\* mutant: loadStoredAuth() restores the persisted session
AuthMount_restoring ==
    /\ authLoading
    /\ token' = storage.auth_token
    /\ user' = {Parse(x) : x \in storage.user}
    /\ authLoading' = FALSE
    /\ ev' = Ev("AuthMount", "loadStoredAuth", "resolved")
    /\ UNCHANGED <<connection, storeVars, storage, calls>>

\* useEffect on mount: loadStoredAuth() restores nothing
AuthMount ==
    /\ authLoading
    /\ token' = {}
    /\ user' = {}
    /\ authLoading' = FALSE
    /\ ev' = Ev("AuthMount", "loadStoredAuth", "resolved")
    /\ UNCHANGED <<connection, storeVars, storage, calls>>

\* login(email, password) or register(email, password, name) is called:
\* the POST is issued and awaited
AuthStart(op) ==
    /\ ~authLoading
    /\ Len(calls) < MaxCalls
    /\ calls' = Append(calls, Call(op, "post", {}, {}, FALSE))
    /\ ev' = Ev("AuthStart", op, "pending")
    /\ UNCHANGED <<connection, storeVars, storage, authVars>>

\* the POST resolves: await AsyncStorage.setItem('auth_token', access_token)
AuthPostOk(i, b) ==
    /\ calls[i].op \in AuthOps
    /\ calls[i].pc = "post"
    /\ storage' = [storage EXCEPT !.auth_token = {b.access_token}]
    /\ calls' = Overlap([calls EXCEPT ![i].pc = "stored_token",
                                       ![i].body = {b}])
    /\ ev' = Ev("AuthPostOk", calls[i].op, "pending")
    /\ UNCHANGED <<connection, storeVars, authVars>>

\* mutant: the user record is not persisted
AuthStoreUser_skipping(i) ==
    /\ calls[i].op \in AuthOps
    /\ calls[i].pc = "stored_token"
    /\ calls' = [calls EXCEPT ![i].pc = "stored_user"]
    /\ ev' = Ev("AuthStoreUser", calls[i].op, "pending")
    /\ UNCHANGED <<connection, storeVars, storage, authVars>>

\* await AsyncStorage.setItem('user', JSON.stringify(userData))
AuthStoreUser(i) ==
    /\ calls[i].op \in AuthOps
    /\ calls[i].pc = "stored_token"
    /\ storage' = [storage EXCEPT
            !.user = {Stringify(b.user) : b \in calls[i].body}]
    /\ calls' = Overlap([calls EXCEPT ![i].pc = "stored_user"])
    /\ ev' = Ev("AuthStoreUser", calls[i].op, "pending")
    /\ UNCHANGED <<connection, storeVars, authVars>>

\* setToken(access_token); setUser(userData)
AuthSignedIn(i) ==
    /\ calls[i].op \in AuthOps
    /\ calls[i].pc = "stored_user"
    /\ token' = {b.access_token : b \in calls[i].body}
    /\ user' = {b.user : b \in calls[i].body}
    /\ calls' = RemoveAt(calls, i)
    /\ ev' = Ev("AuthSignedIn", calls[i].op, "resolved")
    /\ UNCHANGED <<connection, storeVars, storage, authLoading>>

\* mutant: the catch block signs the session out before throwing
AuthPostFail_signout(i, e) ==
    /\ calls[i].op \in AuthOps
    /\ calls[i].pc = "post"
    /\ calls' = RemoveAt(calls, i)
    /\ token' = {}
    /\ user' = {}
    /\ storage' = [auth_token |-> {}, user |-> {}]
    /\ ev' = [Ev("AuthPostFail", calls[i].op, "rejected") EXCEPT
                !.err = {e},
                !.thrown = {ErrorMessage(e, Fallback(calls[i].op))}]
    /\ UNCHANGED <<connection, storeVars, authLoading>>

\* the POST rejects: throw new Error(detail || message || fallback)
AuthPostFail(i, e) ==
    /\ calls[i].op \in AuthOps
    /\ calls[i].pc = "post"
    /\ calls' = RemoveAt(calls, i)
    /\ ev' = [Ev("AuthPostFail", calls[i].op, "rejected") EXCEPT
                !.err = {e},
                !.thrown = {ErrorMessage(e, Fallback(calls[i].op))}]
    /\ UNCHANGED <<connection, storeVars, storage, authVars>>

\* logout(): await AsyncStorage.removeItem('auth_token')
LogoutStart ==
    /\ ~authLoading
    /\ Len(calls) < MaxCalls
    /\ storage' = [storage EXCEPT !.auth_token = {}]
    /\ calls' = Append(calls, Call("logout", "removed_token", {}, {}, FALSE))
    /\ ev' = Ev("LogoutStart", "logout", "pending")
    /\ UNCHANGED <<connection, storeVars, authVars>>

\* await AsyncStorage.removeItem('user')
LogoutRemoveUser(i) ==
    /\ calls[i].op = "logout"
    /\ calls[i].pc = "removed_token"
    /\ storage' = [storage EXCEPT !.user = {}]
    /\ calls' = [calls EXCEPT ![i].pc = "removed_user"]
    /\ ev' = Ev("LogoutRemoveUser", "logout", "pending")
    /\ UNCHANGED <<connection, storeVars, authVars>>

\* mutant: logout forgets the in-memory user
LogoutDone_halfway(i) ==
    /\ calls[i].op = "logout"
    /\ calls[i].pc = "removed_user"
    /\ token' = {}
    /\ calls' = RemoveAt(calls, i)
    /\ ev' = [Ev("LogoutDone", "logout", "resolved") EXCEPT
                !.late = calls[i].late]
    /\ UNCHANGED <<connection, storeVars, storage, user, authLoading>>

\* setToken(null); setUser(null)
LogoutDone(i) ==
    /\ calls[i].op = "logout"
    /\ calls[i].pc = "removed_user"
    /\ token' = {}
    /\ user' = {}
    /\ calls' = RemoveAt(calls, i)
    /\ ev' = [Ev("LogoutDone", "logout", "resolved") EXCEPT
                !.late = calls[i].late]
    /\ UNCHANGED <<connection, storeVars, storage, authLoading>>

\* query parameters of an inbound callback URL: token and user may each be
\* missing; the token may be empty; the user may be text that is not JSON
\* or the JSON of the account that signed in with Google
LinkTokens == {{}, {""}, {"tg"}}

LinkUsers ==
    {{}, {<<"text", "oops">>}}
        \cup {{Stringify(u)} : u \in {w \in Users : w.id = "2"}}

\* JSON.parse accepts what JSON.stringify produced and throws otherwise
Parseable(s) == s[1] = "json"

\* mutant: the callback signs in without persisting the user record
HandleDeepLink_volatile(t, u) ==
    /\ ~authLoading
    /\ IF t # {} /\ t # {""} /\ u # {} /\ \A x \in u : Parseable(x)
       THEN /\ storage' = [storage EXCEPT !.auth_token = t]
            /\ token' = t
            /\ user' = {Parse(x) : x \in u}
            /\ calls' = Overlap(calls)
            /\ ev' = [Ev("DeepLink", "handleDeepLink", "returned") EXCEPT
                        !.arg = {<<t, u>>}]
       ELSE /\ ev' = [Ev("DeepLink", "handleDeepLink",
                         IF t # {} /\ t # {""} /\ u # {}
                         THEN "thrown" ELSE "returned") EXCEPT
                        !.arg = {<<t, u>>}]
            /\ UNCHANGED <<storage, token, user, calls>>
    /\ UNCHANGED <<connection, storeVars, authLoading>>

\* the listener registered on mount receives a URL: handleDeepLink.  With
\* both parameters truthy it parses the user (JSON.parse throws on text that
\* is not JSON, before anything is written), issues both setItem calls
\* without awaiting them, and sets token and user
HandleDeepLink(t, u) ==
    /\ ~authLoading
    /\ IF t # {} /\ t # {""} /\ u # {} /\ \A x \in u : Parseable(x)
       THEN /\ storage' = [auth_token |-> t,
                           user |-> {Stringify(Parse(x)) : x \in u}]
            /\ token' = t
            /\ user' = {Parse(x) : x \in u}
            /\ calls' = Overlap(calls)
            /\ ev' = [Ev("DeepLink", "handleDeepLink", "returned") EXCEPT
                        !.arg = {<<t, u>>}]
       ELSE /\ ev' = [Ev("DeepLink", "handleDeepLink",
                         IF t # {} /\ t # {""} /\ u # {}
                         THEN "thrown" ELSE "returned") EXCEPT
                        !.arg = {<<t, u>>}]
            /\ UNCHANGED <<storage, token, user, calls>>
    /\ UNCHANGED <<connection, storeVars, authLoading>>

\* the app is closed and started again: the provider is constructed anew
\* (useState initial values), every activation is gone, storage stays
Restart ==
    /\ ~authLoading
    /\ token' = {}
    /\ user' = {}
    /\ authLoading' = TRUE
    /\ calls' = <<>>
    /\ ev' = Ev("Restart", "AuthProvider", "none")
    /\ UNCHANGED <<connection, storeVars, storage>>

----------------------------------------------------------------------------
(* MicrosoftCalendarConnection: handleConnect, the 'url' listeners it     *)
(* registers, handleDisconnect                                            *)

\* inbound URLs, as their path segments
Urls == {<<"microsoft", "callback">>, <<"google", "callback">>,
         <<"api", "microsoft", "callback">>, <<"callback", "microsoft">>}

\* url.includes('microsoft/callback')
IncludesCallback(url) ==
    \E k \in 1..(Len(url) - 1) : url[k] = "microsoft" /\ url[k + 1] = "callback"

\* !token: null and '' are falsy
NoToken(t) == t = {} \/ t = {""}

IsListener(c) == c.op = "urlListener"

\* the Connect button is pressed (it is rendered while not connected and
\* disabled while isLoading): setIsLoading(true), await getItem
HandleConnect ==
    /\ ~connection.connected
    /\ ~connection.isLoading
    /\ Len(calls) < MaxCalls
    /\ connection' = [connection EXCEPT !.isLoading = TRUE]
    /\ calls' = Append(calls, Call("handleConnect", "token", {}, {}, FALSE))
    /\ ev' = Ev("HandleConnect", "handleConnect", "pending")
    /\ UNCHANGED <<storeVars, storage, authVars>>

\* the token read resolves: without a token alert and return through
\* finally; otherwise await Linking.canOpenURL(authUrl)
ConnectToken(i) ==
    /\ calls[i].op = "handleConnect"
    /\ calls[i].pc = "token"
    /\ IF NoToken(storage.auth_token)
       THEN /\ connection' = [connection EXCEPT !.isLoading = FALSE]
            /\ calls' = RemoveAt(calls, i)
            /\ ev' = [Ev("ConnectToken", "handleConnect", "resolved") EXCEPT
                        !.alerts = <<"Error">>]
       ELSE /\ connection' = connection
            /\ calls' = [calls EXCEPT ![i].pc = "canOpenURL"]
            /\ ev' = Ev("ConnectToken", "handleConnect", "pending")
    /\ UNCHANGED <<storeVars, storage, authVars>>

\* canOpenURL resolves: await Linking.openURL(authUrl), or alert and
\* return through finally
ConnectCanOpen(i, canOpen) ==
    /\ calls[i].op = "handleConnect"
    /\ calls[i].pc = "canOpenURL"
    /\ IF canOpen
       THEN /\ connection' = connection
            /\ calls' = [calls EXCEPT ![i].pc = "openURL"]
            /\ ev' = Ev("ConnectCanOpen", "handleConnect", "pending")
       ELSE /\ connection' = [connection EXCEPT !.isLoading = FALSE]
            /\ calls' = RemoveAt(calls, i)
            /\ ev' = [Ev("ConnectCanOpen", "handleConnect", "resolved") EXCEPT
                        !.alerts = <<"Error">>]
    /\ UNCHANGED <<storeVars, storage, authVars>>

\* openURL resolves: Linking.addEventListener('url', ...) subscribes one
\* more listener; finally setIsLoading(false)
ConnectOpened(i) ==
    /\ calls[i].op = "handleConnect"
    /\ calls[i].pc = "openURL"
    /\ connection' = [connection EXCEPT !.isLoading = FALSE]
    /\ calls' = Append(RemoveAt(calls, i),
                       Call("urlListener", "subscribed", {}, {}, FALSE))
    /\ ev' = Ev("ConnectOpened", "handleConnect", "resolved")
    /\ UNCHANGED <<storeVars, storage, authVars>>

\* canOpenURL or openURL rejects: catch alerts; finally setIsLoading(false)
ConnectFailed(i) ==
    /\ calls[i].op = "handleConnect"
    /\ calls[i].pc \in {"canOpenURL", "openURL"}
    /\ connection' = [connection EXCEPT !.isLoading = FALSE]
    /\ calls' = RemoveAt(calls, i)
    /\ ev' = [Ev("ConnectFailed", "handleConnect", "resolved") EXCEPT
                !.alerts = <<"Error">>]
    /\ UNCHANGED <<storeVars, storage, authVars>>

\* Linking emits a 'url' event: every subscribed listener runs.  On a URL
\* that includes 'microsoft/callback' each of them sets connected, calls
\* onConnected, alerts and removes its own subscription
UrlEvent(url) ==
    /\ LET hit == IncludesCallback(url)
           n == IF hit THEN Len(SelectSeq(calls, IsListener)) ELSE 0
       IN /\ calls' = IF hit
                       THEN SelectSeq(calls, LAMBDA c : ~IsListener(c))
                       ELSE calls
          /\ connection' = IF n > 0
                            THEN [connection EXCEPT !.connected = TRUE]
                            ELSE connection
          /\ ev' = [Ev("Url", "urlListener", "returned") EXCEPT
                      !.arg = {url}, !.onConnected = n,
                      !.alerts = [k \in 1..n |-> "Success"]]
    /\ UNCHANGED <<storeVars, storage, authVars>>

\* Disconnect is pressed (rendered while connected, disabled while
\* isLoading) and confirmed in the dialog: setIsLoading(true), await getItem
HandleDisconnect ==
    /\ connection.connected
    /\ ~connection.isLoading
    /\ Len(calls) < MaxCalls
    /\ connection' = [connection EXCEPT !.isLoading = TRUE]
    /\ calls' = Append(calls, Call("handleDisconnect", "token", {}, {}, FALSE))
    /\ ev' = Ev("HandleDisconnect", "handleDisconnect", "pending")
    /\ UNCHANGED <<storeVars, storage, authVars>>

\* the token read resolves: with a token await disconnectMicrosoft(token),
\* without one fall through to finally
DisconnectToken(i) ==
    /\ calls[i].op = "handleDisconnect"
    /\ calls[i].pc = "token"
    /\ IF NoToken(storage.auth_token)
       THEN /\ connection' = [connection EXCEPT !.isLoading = FALSE]
            /\ calls' = RemoveAt(calls, i)
            /\ ev' = Ev("DisconnectToken", "handleDisconnect", "resolved")
       ELSE /\ connection' = connection
            /\ calls' = [calls EXCEPT ![i].pc = "http"]
            /\ ev' = Ev("DisconnectToken", "handleDisconnect", "pending")
    /\ UNCHANGED <<storeVars, storage, authVars>>

\* disconnectMicrosoft settles: true, false or a rejection
DisconnectDone(i, outcome) ==
    /\ calls[i].op = "handleDisconnect"
    /\ calls[i].pc = "http"
    /\ connection' = [isLoading |-> FALSE,
                      connected |-> IF outcome = "true" THEN FALSE
                                    ELSE connection.connected]
    /\ calls' = RemoveAt(calls, i)
    /\ ev' = [Ev("DisconnectDone", "handleDisconnect", "resolved") EXCEPT
                !.ret = outcome,
                !.alerts = IF outcome = "true" THEN <<"Success">>
                           ELSE <<"Error">>]
    /\ UNCHANGED <<storeVars, storage, authVars>>

----------------------------------------------------------------------------
(* edit-event.tsx handleUpdate and the create-event screen's handleCreate *)

Forms == {"create", "edit"}

FormOp(form) == IF form = "create" THEN "createEvent" ELSE "updateEvent"

\* the title field: text of blanks and letters
Titles == SeqsUpTo({" ", "a"}, MaxTitle)

\* a Date: {} is Invalid Date (time value NaN), {n} a valid instant
FormDates == {{}} \cup {{n} : n \in 0..MaxGap}

\* String.prototype.trim
RECURSIVE TrimStart(_)
TrimStart(t) ==
    IF t # <<>> /\ Head(t) = " " THEN TrimStart(Tail(t)) ELSE t

RECURSIVE TrimEnd(_)
TrimEnd(t) ==
    IF t # <<>> /\ t[Len(t)] = " "
    THEN TrimEnd(SubSeq(t, 1, Len(t) - 1)) ELSE t

Trim(t) == TrimEnd(TrimStart(t))

\* endDate <= startDate on Date objects: a comparison with NaN is false
DateLe(a, b) == \E x \in a, y \in b : x <= y

\* Date.prototype.toISOString of a valid date
ToISOString(d) == <<"iso", CHOOSE n \in d : TRUE>>

\* what the screens can hold: the create screen starts from new Date() and
\* its pickers, the edit screen from parseISO of the event's timestamps
FormStates ==
    {[form |-> f, title |-> t, start |-> a, end |-> b] :
        <<f, t, a, b>> \in
            {x \in Forms \X Titles \X FormDates \X FormDates :
                x[1] = "create" => (x[3] # {} /\ x[4] # {})}}

\* mutant: the forms test the raw title instead of the trimmed one
FormSubmit_untrimmed(f) ==
    /\ calls = <<>>
    /\ IF f.title = <<>> \/ DateLe(f.end, f.start)
            \/ f.start = {} \/ f.end = {}
       THEN /\ ev' = [Ev("FormRejected", FormOp(f.form), "none") EXCEPT
                        !.arg = {[input |-> f, payload |-> {}]},
                        !.alerts = <<"Error">>]
            /\ UNCHANGED calls
       ELSE /\ calls' = Append(calls,
                    Call(FormOp(f.form), "token", {}, {}, FALSE))
            /\ ev' = [Ev("FormSubmit", FormOp(f.form), "pending") EXCEPT
                        !.arg = {[input |-> f, payload |->
                                  {[title |-> Trim(f.title),
                                    start_time |-> ToISOString(f.start),
                                    end_time |-> ToISOString(f.end)]}]}]
    /\ UNCHANGED <<connection, storeVars, storage, authVars>>

\* the submit button is pressed (it is disabled while a submit is under
\* way).  Empty trimmed title: alert and return.  endDate <= startDate:
\* alert and return.  Otherwise the payload is built inside the try block,
\* where toISOString throws on an Invalid Date (caught: alert, no store
\* call), and createEvent / updateEvent is called with it
FormSubmit(f) ==
    /\ calls = <<>>
    /\ IF Trim(f.title) = <<>> \/ DateLe(f.end, f.start)
            \/ f.start = {} \/ f.end = {}
       THEN /\ ev' = [Ev("FormRejected", FormOp(f.form), "none") EXCEPT
                        !.arg = {[input |-> f, payload |-> {}]},
                        !.alerts = <<"Error">>]
            /\ UNCHANGED calls
       ELSE /\ calls' = Append(calls,
                    Call(FormOp(f.form), "token", {}, {}, FALSE))
            /\ ev' = [Ev("FormSubmit", FormOp(f.form), "pending") EXCEPT
                        !.arg = {[input |-> f, payload |->
                                  {[title |-> Trim(f.title),
                                    start_time |-> ToISOString(f.start),
                                    end_time |-> ToISOString(f.end)]}]}]
    /\ UNCHANGED <<connection, storeVars, storage, authVars>>

----------------------------------------------------------------------------
(* (tabs)/events.tsx getFilteredEvents, with date-fns *)

\* the calendar: instants are ticks, a day has DayLen ticks and a month
\* MonthDays days
DayLen == 2

MonthDays == 2

StartOfDay(n) == n - (n % DayLen)

MonthOf(n) == n \div (DayLen * MonthDays)

\* start_time / end_time of an event: an ISO timestamp or other text
Stamps == {<<"iso", n>> : n \in 0..MaxTime} \cup {<<"text", "soon">>}

\* parseISO: Invalid Date for text that is no ISO timestamp
ParseISO(t) == IF t[1] = "iso" THEN {t[2]} ELSE {}

\* isFuture(d): d > Date.now()
IsFuture(d, now) == \E x \in d : x > now

\* mutant: "today" is the 24 hours up to now
IsToday_rolling(d, now) == \E x \in d : x <= now /\ x > now - DayLen

\* isToday(d): startOfDay(d) equals startOfDay(Date.now())
IsToday(d, now) == \E x \in d : StartOfDay(x) = StartOfDay(now)

\* mutant: an event ending right now is already past
IsPast_inclusive(d, now) == \E x \in d : x <= now

\* isPast(d): d < Date.now()
IsPast(d, now) == \E x \in d : x < now

\* isSameMonth(a, b): same year and same month
IsSameMonth(a, b) == \E x \in a, y \in b : MonthOf(x) = MonthOf(y)

\* the two versions of the events screen: (tabs)/events.tsx filters by the
\* selected month as well, the other version does not
Screens == {"events.tsx", "part_001"}

InMonthScope(screen, e, month) ==
    screen = "events.tsx" => IsSameMonth(ParseISO(e.start_time), {month})

\* the callback chain of one filter applied to one event
Passes(screen, filter, e, now, month) ==
    CASE filter = "upcoming" ->
            /\ IsFuture(ParseISO(e.start_time), now)
                    \/ IsToday(ParseISO(e.start_time), now)
            /\ InMonthScope(screen, e, month)
      [] filter = "past" ->
            /\ IsPast(ParseISO(e.end_time), now)
            /\ InMonthScope(screen, e, month)

\* a render that is due: the screen, its filter tab, an event of the list,
\* the clock and the selected month
Renders ==
    {[Ev("Render", filter, "none") EXCEPT
        !.arg = {[screen |-> screen, event |-> e, now |-> now,
                  selectedMonth |-> month]}] :
        screen \in Screens, filter \in {"upcoming", "past"},
        e \in [start_time : Stamps, end_time : Stamps],
        now \in 0..MaxTime, month \in 0..MaxTime}

\* format(d, pattern): RangeError 'Invalid time value' for an Invalid Date
FormatThrows(d) == d = {}

\* the card of one event, on either screen, formats its start and its end
CardThrows(e) ==
    FormatThrows(ParseISO(e.start_time)) \/ FormatThrows(ParseISO(e.end_time))

\* the screen renders: getFilteredEvents() decides for the event, and the
\* card of an event that passed is drawn
GetFilteredEvents ==
    /\ ev.act = "Render"
    /\ \E a \in ev.arg :
        LET shown == Passes(a.screen, ev.op, a.event, a.now, a.selectedMonth)
        IN ev' = [Ev("Filter", ev.op,
                     IF shown /\ CardThrows(a.event)
                     THEN "thrown" ELSE "rendered") EXCEPT
                    !.arg = ev.arg,
                    !.ret = IF shown THEN "shown" ELSE "hidden"]
    /\ UNCHANGED <<connection, storeVars, storage, authVars, calls>>

----------------------------------------------------------------------------
(* (tabs)/calendar.tsx: the day view and the marked dates *)

\* isSameDay(a, b): startOfDay(a) equals startOfDay(b)
IsSameDay(a, b) == \E x \in a, y \in b : StartOfDay(x) = StartOfDay(y)

\* mutant: the day view compares instants
SelectedDateEvents_exact(es, selectedDate) ==
    SelectSeq(es, LAMBDA e : ParseISO(e.start_time) = {selectedDate})

\* events.filter(event => isSameDay(parseISO(event.start_time), selectedDate))
SelectedDateEvents(es, selectedDate) ==
    SelectSeq(es, LAMBDA e : IsSameDay(ParseISO(e.start_time), {selectedDate}))

\* the keys of markedDates: format(start, 'yyyy-MM-dd') of every event, and
\* the selected date
MarkedDates(es, selectedDate) ==
    {StartOfDay(x) : x \in UNION {ParseISO(es[i].start_time) : i \in 1..Len(es)}}
        \cup {StartOfDay(selectedDate)}

\* the reduce that builds markedDates formats the start of every event
MarkedDatesThrows(es) ==
    \E i \in 1..Len(es) : FormatThrows(ParseISO(es[i].start_time))

\* events of the list as the calendar screen reads them; the end is a
\* timestamp or other text
CalendarEvents ==
    [start_time : Stamps, end_time : {<<"iso", MaxTime>>, <<"text", "soon">>}]

\* MaxList: events in the list the calendar screen draws
MaxList == 2

\* a render of the calendar screen that is due: the list, the selected
\* date, and the filter tab and month the events screen holds at the time
CalendarRender(es, d, filter, month) ==
    [Ev("RenderCalendar", "calendar", "none") EXCEPT
        !.arg = {[events |-> es, selectedDate |-> d, filter |-> filter,
                  selectedMonth |-> month]}]

\* CalendarScreen renders: selectedDateEvents, markedDates, then the cards
CalendarScreen ==
    /\ ev.act = "RenderCalendar"
    /\ \E a \in ev.arg :
        LET shown == SelectedDateEvents(a.events, a.selectedDate)
            fault == \/ MarkedDatesThrows(a.events)
                     \/ \E i \in 1..Len(shown) : CardThrows(shown[i])
        IN ev' = [Ev("Calendar", "calendar",
                     IF fault THEN "thrown" ELSE "rendered") EXCEPT
                    !.arg = {[input |-> a, selectedDateEvents |-> shown,
                              markedDates |->
                                  MarkedDates(a.events, a.selectedDate)]}]
    /\ UNCHANGED <<connection, storeVars, storage, authVars, calls>>

----------------------------------------------------------------------------
(* Resolution of the backend URL in each module that sends requests *)

\* the build configuration: expoConfig.extra.EXPO_PUBLIC_BACKEND_URL and
\* process.env.EXPO_PUBLIC_BACKEND_URL, each undefined, empty or set
Configs ==
    [extra : {{}, {""}, {"https://api"}}, env : {{}, {""}, {"https://api"}}]

\* a || b on optional strings: undefined and '' are falsy
OrElse(a, b) == IF a # {} /\ a # {""} THEN a ELSE b

\* the modules and the path of a request each of them sends
Requests ==
    {<<"calendarStore", "/api/events">>,
     <<"calendarStore", "/api/apple/calendar/sync">>,
     <<"AuthContext", "/api/auth/login">>,
     <<"AuthContext", "/api/auth/register">>,
     <<"AppleCalendarService", "/api/apple/calendar/sync">>,
     <<"AppleAuthService", "/api/apple/calendar/connect">>,
     <<"home", "/api/events">>,
     <<"part_006", "/api/events">>,
     <<"part_005", "/api/auth/register">>}

\* the module-level constant each module computes on load
BaseUrl(module, c) ==
    CASE module \in {"calendarStore", "AuthContext"} ->
            OrElse(c.extra, OrElse(c.env, {"http://10.180.141.59:8000"}))
      [] module \in {"AppleCalendarService", "AppleAuthService"} ->
            OrElse(c.extra, OrElse(c.env, {"http://localhost:8000"}))
      [] module = "home" -> OrElse(c.env, {"http://localhost:8000"})
      [] module = "part_006" ->
            OrElse(c.extra, OrElse(c.env, {"https://10.180.141.59:8000"}))
      [] module = "part_005" -> c.env

\* `${base}${path}`: the template prints an undefined base as "undefined"
UrlOf(base, path) ==
    (IF base = {} THEN "undefined" ELSE CHOOSE b \in base : TRUE) \o path

\* a request that is due: the module, the path and the configuration the
\* app was built with
Sends ==
    {[Ev("Send", q[1], "none") EXCEPT !.arg = {[path |-> q[2], config |-> c]}] :
        q \in Requests, c \in Configs}

\* the module sends the request: no module tests its base URL (the store
\* only logs a warning on load), the request goes out
SendRequest ==
    /\ ev.act = "Send"
    /\ \E a \in ev.arg :
        ev' = [Ev("Request", ev.op, "sent") EXCEPT
                !.arg = ev.arg,
                !.ret = UrlOf(BaseUrl(ev.op, a.config), a.path)]
    /\ UNCHANGED <<connection, storeVars, storage, authVars, calls>>

----------------------------------------------------------------------------
(* Specifications *)

\* useState(false) and useState(isConnected), the prop defaulting to false
InitConnection == connection = [isLoading |-> FALSE, connected |-> FALSE]

InitStore ==
    /\ InitConnection
    /\ events = <<>>
    /\ selectedSources = InitialSources
    /\ isLoading = FALSE
    /\ appleConnected = FALSE
    /\ calls = <<>>
    /\ ev = NoEv

\* the provider has mounted and nobody is signed in
InitAuth ==
    /\ token = {}
    /\ user = {}
    /\ authLoading = FALSE

Init ==
    /\ InitStore
    /\ InitAuth
    /\ storage = [auth_token |-> {"tok"}, user |-> {"u"}]

\* bodies used where the content of the list is not what is examined:
\* every bucket present, the local bucket empty or holding one event
PlainResponses ==
    {[local_events |-> {l}, google_events |-> {<<>>}, apple_events |-> {<<>>},
      microsoft_events |-> {<<>>}, apple_connected |-> {}] :
        l \in {<<>>, <<1>>}}

\* bodies whose local bucket takes every value, absent included
LocalResponses ==
    {[local_events |-> l, google_events |-> {<<>>}, apple_events |-> {<<>>},
      microsoft_events |-> {<<>>}, apple_connected |-> {}] :
        l \in BucketValues}

(* overlapping fetchEvents calls *)
Next ==
    \/ FetchStart
    \/ \E i \in 1..Len(calls) : FetchToken(i)
    \/ \E i \in 1..Len(calls), r \in LocalResponses : FetchSucceed(i, r)
    \/ \E i \in 1..Len(calls), e \in Errors : FetchFail(i, e)

Spec == Init /\ [][Next]_vars

(* overlapping fetchEvents calls whose awaits all settle: the token read *)
(* of AsyncStorage resolves, and every GET is answered, refused or cut   *)
(* off by the 10 s timeout of apiClient                                    *)
TokenRead == \E i \in 1..Len(calls) : FetchToken(i)

RequestSettles ==
    \/ \E i \in 1..Len(calls), r \in LocalResponses : FetchSucceed(i, r)
    \/ \E i \in 1..Len(calls), e \in Errors : FetchFail(i, e)

FairSpec ==
    Init /\ [][Next]_vars /\ WF_vars(TokenRead) /\ WF_vars(RequestSettles)

(* one fetchEvents call after the other, with every response body *)
ListNext ==
    \/ calls = <<>> /\ FetchStart
    \/ \E i \in 1..Len(calls) : FetchToken(i)
    \/ \E i \in 1..Len(calls), r \in Responses : FetchSucceed(i, r)
    \/ \E i \in 1..Len(calls), e \in Errors : FetchFail(i, e)

ListSpec == Init /\ [][ListNext]_vars

(* the four mutating operations with their refresh *)
MutNext ==
    \/ \E op \in MutOps : MutStart(op)
    \/ \E i \in 1..Len(calls) : MutToken(i)
    \/ \E i \in 1..Len(calls) : MutHttpOk(i)
    \/ \E i \in 1..Len(calls), e \in Errors : MutHttpFail(i, e)
    \/ \E i \in 1..Len(calls) : FetchToken(i)
    \/ \E i \in 1..Len(calls), r \in PlainResponses : FetchSucceed(i, r)
    \/ \E i \in 1..Len(calls), e \in Errors : FetchFail(i, e)

MutSpec == Init /\ [][MutNext]_vars

(* one mutating operation after the other, each with its refresh *)
MutSeqNext ==
    \/ calls = <<>> /\ \E op \in MutOps : MutStart(op)
    \/ \E i \in 1..Len(calls) : MutToken(i)
    \/ \E i \in 1..Len(calls) : MutHttpOk(i)
    \/ \E i \in 1..Len(calls), e \in Errors : MutHttpFail(i, e)
    \/ \E i \in 1..Len(calls) : FetchToken(i)
    \/ \E i \in 1..Len(calls), r \in LocalResponses : FetchSucceed(i, r)
    \/ \E i \in 1..Len(calls), e \in Errors : FetchFail(i, e)

MutSeqSpec == Init /\ [][MutSeqNext]_vars

(* the source filter with the fetches it starts *)
ToggleNext ==
    \/ \E id \in ToggleIds : ToggleSource(id)
    \/ \E i \in 1..Len(calls) : FetchToken(i)
    \/ \E i \in 1..Len(calls), r \in PlainResponses : FetchSucceed(i, r)
    \/ \E i \in 1..Len(calls), e \in Errors : FetchFail(i, e)

ToggleSpec == Init /\ [][ToggleNext]_vars

(* the source filter when every request succeeds *)
ToggleOkNext ==
    \/ \E id \in ToggleIds : ToggleSource(id)
    \/ \E i \in 1..Len(calls) : FetchToken(i)
    \/ \E i \in 1..Len(calls), r \in PlainResponses : FetchSucceed(i, r)

ToggleOkSpec == Init /\ [][ToggleOkNext]_vars

(* the Apple connect and sync family with its refresh *)
AppleResponses ==
    {[local_events |-> {<<>>}, google_events |-> {<<>>}, apple_events |-> a,
      microsoft_events |-> {<<>>}, apple_connected |-> c] :
        a \in {{}, {<<>>}, {<<1>>}}, c \in {{}, {TRUE}, {FALSE}}}

AppleInit ==
    /\ InitStore
    /\ InitAuth
    /\ storage \in {[auth_token |-> {}, user |-> {}],
                    [auth_token |-> {"tok"}, user |-> {"u"}]}

AppleNext ==
    \/ \E op \in AppleOps : AppleStart(op)
    \/ \E i \in 1..Len(calls) : AppleToken(i)
    \/ \E i \in 1..Len(calls), st \in OkStatus : AppleHttpOk(i, st)
    \/ \E i \in 1..Len(calls), e \in Errors : AppleHttpFail(i, e)
    \/ \E i \in 1..Len(calls) : FetchToken(i)
    \/ \E i \in 1..Len(calls), r \in AppleResponses : FetchSucceed(i, r)
    \/ \E i \in 1..Len(calls), e \in Errors : FetchFail(i, e)

AppleSpec == AppleInit /\ [][AppleNext]_vars

(* the create and edit forms with the store calls they make *)
FormNext ==
    \/ \E f \in FormStates : FormSubmit(f)
    \/ \E i \in 1..Len(calls) : MutToken(i)
    \/ \E i \in 1..Len(calls) : MutHttpOk(i)
    \/ \E i \in 1..Len(calls), e \in Errors : MutHttpFail(i, e)
    \/ \E i \in 1..Len(calls) : FetchToken(i)
    \/ \E i \in 1..Len(calls), r \in PlainResponses : FetchSucceed(i, r)
    \/ \E i \in 1..Len(calls), e \in Errors : FetchFail(i, e)

FormSpec == Init /\ [][FormNext]_vars

(* the events screen filtering one event at one moment, and the calendar *)
(* screen drawing one list for one selected date                        *)
ViewInit ==
    /\ InitConnection
    /\ events = <<>>
    /\ selectedSources = InitialSources
    /\ isLoading = FALSE
    /\ appleConnected = FALSE
    /\ calls = <<>>
    /\ InitAuth
    /\ storage = [auth_token |-> {"tok"}, user |-> {"u"}]
    /\ \/ ev \in Renders
       \/ \E es \in SeqsUpTo(CalendarEvents, MaxList), d \in 0..MaxTime,
             filter \in {"upcoming", "past"}, month \in {0, MaxTime} :
                ev = CalendarRender(es, d, filter, month)

ViewNext == GetFilteredEvents \/ CalendarScreen

ViewSpec == ViewInit /\ [][ViewNext]_vars

(* each module sending a request under each build configuration *)
ConfigInit ==
    /\ InitConnection
    /\ events = <<>>
    /\ selectedSources = InitialSources
    /\ isLoading = FALSE
    /\ appleConnected = FALSE
    /\ calls = <<>>
    /\ InitAuth
    /\ storage = [auth_token |-> {"tok"}, user |-> {"u"}]
    /\ ev \in Sends

ConfigNext == SendRequest

ConfigSpec == ConfigInit /\ [][ConfigNext]_vars

(* the auth provider: app start, login, register, deep link, logout *)
StoredSessions ==
    {[auth_token |-> {}, user |-> {}]}
        \cup {[auth_token |-> {b.access_token}, user |-> {Stringify(b.user)}] :
                b \in AuthBodies}

AuthInit ==
    /\ InitStore
    /\ token = {}
    /\ user = {}
    /\ authLoading = TRUE
    /\ storage \in StoredSessions

AuthNext ==
    \/ AuthMount
    \/ \E op \in AuthOps : AuthStart(op)
    \/ \E i \in 1..Len(calls), b \in AuthBodies : AuthPostOk(i, b)
    \/ \E i \in 1..Len(calls) : AuthStoreUser(i)
    \/ \E i \in 1..Len(calls) : AuthSignedIn(i)
    \/ \E i \in 1..Len(calls), e \in AuthErrors : AuthPostFail(i, e)
    \/ LogoutStart
    \/ \E i \in 1..Len(calls) : LogoutRemoveUser(i)
    \/ \E i \in 1..Len(calls) : LogoutDone(i)
    \/ \E t \in LinkTokens, u \in LinkUsers : HandleDeepLink(t, u)
    \/ Restart

AuthSpec == AuthInit /\ [][AuthNext]_vars

(* the auth provider when every AsyncStorage call settles: a login,      *)
(* register or logout that has got past its first await runs to its end; *)
(* nothing obliges a POST to be answered or a new operation to begin     *)
StorageSettles ==
    \E i \in 1..Len(calls) :
        \/ AuthStoreUser(i)
        \/ AuthSignedIn(i)
        \/ LogoutRemoveUser(i)
        \/ LogoutDone(i)

AuthFairSpec == AuthInit /\ [][AuthNext]_vars /\ WF_vars(StorageSettles)

(* one auth operation or store request after the other: login, register, *)
(* logout and fetchEvents, across app starts                              *)
AuthSeqNext ==
    \/ AuthMount
    \/ calls = <<>> /\ \E op \in AuthOps : AuthStart(op)
    \/ \E i \in 1..Len(calls), b \in AuthBodies : AuthPostOk(i, b)
    \/ \E i \in 1..Len(calls) : AuthStoreUser(i)
    \/ \E i \in 1..Len(calls) : AuthSignedIn(i)
    \/ \E i \in 1..Len(calls), e \in AuthErrors : AuthPostFail(i, e)
    \/ calls = <<>> /\ LogoutStart
    \/ \E i \in 1..Len(calls) : LogoutRemoveUser(i)
    \/ \E i \in 1..Len(calls) : LogoutDone(i)
    \/ calls = <<>> /\ ~authLoading /\ FetchStart
    \/ \E i \in 1..Len(calls) : FetchToken(i)
    \/ \E i \in 1..Len(calls), r \in PlainResponses : FetchSucceed(i, r)
    \/ \E i \in 1..Len(calls), e \in Errors : FetchFail(i, e)
    \/ Restart

AuthSeqSpec == AuthInit /\ [][AuthSeqNext]_vars

(* the Microsoft connection card: connect, callback URLs, disconnect *)
ConnectNext ==
    \/ HandleConnect
    \/ \E i \in 1..Len(calls) : ConnectToken(i)
    \/ \E i \in 1..Len(calls), canOpen \in BOOLEAN : ConnectCanOpen(i, canOpen)
    \/ \E i \in 1..Len(calls) : ConnectOpened(i)
    \/ \E i \in 1..Len(calls) : ConnectFailed(i)
    \/ \E url \in Urls : UrlEvent(url)
    \/ HandleDisconnect
    \/ \E i \in 1..Len(calls) : DisconnectToken(i)
    \/ \E i \in 1..Len(calls), outcome \in {"true", "false", "throw"} :
            DisconnectDone(i, outcome)

\* the card is mounted with the isConnected prop false or true, with or
\* without a persisted token
ConnectInit ==
    /\ connection \in [isLoading : {FALSE}, connected : BOOLEAN]
    /\ events = <<>>
    /\ selectedSources = InitialSources
    /\ isLoading = FALSE
    /\ appleConnected = FALSE
    /\ calls = <<>>
    /\ ev = NoEv
    /\ InitAuth
    /\ storage \in {[auth_token |-> {}, user |-> {}],
                    [auth_token |-> {"tok"}, user |-> {"u"}]}

ConnectSpec == ConnectInit /\ [][ConnectNext]_vars
----------------------------------------------------------------------------
(* Claims about fetchEvents, checked under Spec and ListSpec *)

BucketOrder ==
    <<"local_events", "google_events", "apple_events", "microsoft_events">>

\* the array a body carries under a key; nothing when the key is absent
Carried(r, k) == IF r[k] = {} THEN <<>> ELSE CHOOSE s \in r[k] : TRUE

RECURSIVE Flatten(_, _)
Flatten(r, keys) ==
    IF keys = <<>> THEN <<>>
    ELSE Carried(r, Head(keys)) \o Flatten(r, Tail(keys))

FetchInFlight == \E i \in 1..Len(calls) : calls[i].pc \in {"f_token", "f_get"}

\* C1: right after a successful fetchEvents() the events list is exactly
\* local ++ google ++ apple ++ microsoft of the response (an absent bucket
\* being empty); nothing of the previous list survives.
C1_FetchReplacesList ==
    ev.act = "FetchSucceed" =>
        \A r \in ev.resp : events = Flatten(r, BucketOrder)

C1_Witness ==
    /\ ev.act = "FetchSucceed"
    /\ \E r \in ev.resp :
        /\ r.local_events = {}
        /\ r.google_events # {} /\ Len(Items(r.google_events)) = 1
        /\ r.microsoft_events # {} /\ Len(Items(r.microsoft_events)) = 1
        /\ events = Items(r.google_events) \o Items(r.microsoft_events)

\* C2: no step of a fetchEvents() whose request fails writes the events
\* list (its start, its token read and its catch block leave the list as
\* it was), and the catch block leaves isLoading false.
C2_FailedFetchKeepsList ==
    [][/\ ev'.act \in {"FetchStart", "FetchToken", "FetchFail"}
            => events' = events
       /\ ev'.act = "FetchFail" => isLoading' = FALSE]_vars

C2_Witness ==
    /\ ev.act = "FetchFail"
    /\ events # <<>>
    /\ isLoading = FALSE

\* C3: isLoading is true exactly while some fetchEvents() is in flight,
\* also when several calls overlap.
C3_LoadingIffInFlight == isLoading <=> FetchInFlight

\* C4: starting a fetchEvents() cancels no outstanding one, and a
\* response that arrives after the response of a later-issued fetch (or
\* while another fetch is still outstanding) is written like any other:
\* the list is the one built from the response that arrived last.
C4_LastArrivalWins ==
    /\ [][ev'.act \in {"FetchStart", "ToggleSource"} =>
            /\ Len(calls') = Len(calls) + 1
            /\ SubSeq(calls', 1, Len(calls)) = calls]_vars
    /\ []((ev.act = "FetchSucceed" /\ (ev.late \/ FetchInFlight)) =>
            \A r \in ev.resp : events = Flatten(r, BucketOrder))

C4_Witness ==
    /\ ev.act = "FetchSucceed"
    /\ ev.late
    /\ calls = <<>>
    /\ events # <<>>
    /\ \A r \in ev.resp : events = Flatten(r, BucketOrder)

----------------------------------------------------------------------------
(* Claims about the mutating operations, checked under MutSpec *)

\* C5: createEvent, updateEvent, deleteEvent and respondToInvite never
\* write the events list: the list changes only in the step that completes
\* a successful fetchEvents(), so it is always the initial empty list or
\* the concatenated buckets of one backend response.
C5_OnlyFetchWritesList ==
    /\ [][events' # events => ev'.act = "FetchSucceed"]_vars
    /\ [](\/ events = <<>>
          \/ \E r \in Responses : events = Flatten(r, BucketOrder))

C5_Witness ==
    /\ ev.act = "FetchSucceed"
    /\ ev.op = "deleteEvent"
    /\ events # <<>>

\* C6 as stated: once the HTTP call of a mutating operation has completed,
\* successfully or not, the operation has called fetchEvents().
C6_RefetchUnconditional ==
    ev.act \in {"HttpOk", "HttpFail"} =>
        /\ isLoading
        /\ \E i \in 1..Len(calls) :
              calls[i].op = ev.op /\ calls[i].pc = "f_token"

\* C6 amended: a mutating operation calls fetchEvents() exactly when its
\* HTTP call succeeded; when the HTTP call fails the operation ends in its
\* catch block without starting a fetch (isLoading and every other
\* activation are left alone).
C6_RefetchAfterSuccess ==
    /\ [](ev.act = "HttpOk" =>
            /\ isLoading
            /\ \E i \in 1..Len(calls) :
                  calls[i].op = ev.op /\ calls[i].pc = "f_token")
    /\ [][ev'.act = "HttpFail" =>
            /\ isLoading' = isLoading
            /\ Len(calls') = Len(calls) - 1
            /\ \A i \in 1..Len(calls') : calls'[i].pc # "f_token"
                  \/ \E j \in 1..Len(calls) : calls[j] = calls'[i]]_vars

C6_Witness ==
    /\ ev.act = "HttpOk"
    /\ ev.op = "respondToInvite"
    /\ isLoading
    /\ \E i \in 1..Len(calls) :
          calls[i].op = "respondToInvite" /\ calls[i].pc = "f_token"

\* C7: when the HTTP call of a mutating operation fails, the operation
\* rejects with the very error the HTTP call failed with.
C7_FailureRethrown ==
    (ev.act = "HttpFail" /\ ev.op \in MutOps) =>
        /\ ev.out = "rejected"
        /\ ev.err # {}
        /\ ev.thrown = ev.err

C7_Witness ==
    /\ ev.act = "HttpFail"
    /\ ev.op = "updateEvent"
    /\ ev.out = "rejected"
    /\ ev.thrown = {[status |-> {422}]}

----------------------------------------------------------------------------
(* Claims about toggleSource, checked under ToggleSpec *)

\* C9 as stated: toggleSource(id) flips the membership of id only and the
\* request of the fetch it starts carries exactly the list it stored.
C9_RequestCarriesToggledSet ==
    [][\A i \in 1..Len(calls) :
          (calls[i].pc = "f_token" /\ calls[i].by # {}
             /\ ev'.act = "FetchToken" /\ calls'[i].pc = "f_get")
          => calls'[i].src = calls[i].by]_vars

\* C9 amended: toggleSource(id) flips the membership of id and of no other
\* id and starts a fetchEvents() in the same step; the request of that
\* fetch carries the selectedSources of the moment its token read
\* completes, which is the list the toggle stored unless selectedSources
\* was changed again in between.
C9_ToggleFlipsAndFetches ==
    /\ [][ev'.act = "ToggleSource" =>
            /\ \A id \in ev'.arg :
                 /\ (id \in Range(selectedSources'))
                        <=> ~(id \in Range(selectedSources))
                 /\ \A x \in (Range(selectedSources)
                                \cup Range(selectedSources')) \ {id} :
                        (x \in Range(selectedSources'))
                            <=> (x \in Range(selectedSources))
            /\ isLoading'
            /\ Len(calls') = Len(calls) + 1
            /\ calls'[Len(calls')].pc = "f_token"
            /\ calls'[Len(calls')].by = {selectedSources'}]_vars
    /\ [][\A i \in 1..Len(calls) :
            (calls[i].pc = "f_token" /\ ev'.act = "FetchToken"
                /\ calls'[i].pc = "f_get")
            => /\ calls'[i].src = {selectedSources}
               /\ (calls[i].by = {selectedSources}
                     => calls'[i].src = calls[i].by)]_vars

C9_Witness ==
    /\ ev.act = "FetchToken"
    /\ Len(calls) = 1
    /\ calls[1].pc = "f_get"
    /\ calls[1].src = {<<"apple", "microsoft", "local">>}
    /\ selectedSources = <<"apple", "microsoft", "local">>

----------------------------------------------------------------------------
(* Claims about the Apple connect and sync family, checked under AppleSpec *)

RefreshStarted(op) ==
    /\ isLoading
    /\ \E i \in 1..Len(calls) : calls[i].op = op /\ calls[i].pc = "f_token"

----------------------------------------------------------------------------
(* Claims about the auth provider, checked under AuthSpec *)

\* C10: a login() or register() whose backend call fails writes nothing
\* to persisted storage and leaves the in-memory token and user as they
\* were at every one of its steps, and it rejects with an Error whose
\* message is the detail of the backend payload when the payload has one
\* (otherwise the transport message).
C10_FailedAuthChangesNothing ==
    [][/\ ev'.act \in {"AuthStart", "AuthPostFail"} =>
            /\ storage' = storage
            /\ token' = token
            /\ user' = user
       /\ ev'.act = "AuthPostFail" =>
            /\ ev'.out = "rejected"
            /\ \A e \in ev'.err :
                  /\ e.detail # {} => ev'.thrown = e.detail
                  /\ e.detail = {} => ev'.thrown = {e.message}]_vars

C10_Witness ==
    /\ ev.act = "AuthPostFail"
    /\ ev.op = "register"
    /\ ev.out = "rejected"
    /\ ev.thrown = {"Invalid credentials"}
    /\ token = {}
    /\ user = {}
    /\ storage = [auth_token |-> {}, user |-> {}]

NothingStored == [auth_token |-> {}, user |-> {}]

\* C11: logout() removes the persisted auth_token, then the persisted
\* user, then sets the in-memory token and user to null; when it completes
\* the session is signed-out and, unless a sign-in wrote to storage while
\* the logout was running, nothing is persisted under either key, whatever
\* the session was before.
C11_LogoutSignsOut ==
    /\ [][/\ ev'.act = "LogoutStart" => storage'.auth_token = {}
          /\ ev'.act = "LogoutRemoveUser" => storage'.user = {}
          /\ ev'.act = "LogoutDone" => (token' = {} /\ user' = {})]_vars
    /\ []((ev.act = "LogoutDone" /\ ~ev.late) =>
            (storage = NothingStored /\ token = {} /\ user = {}))

C11_Witness ==
    /\ ev.act = "LogoutDone"
    /\ ~ev.late
    /\ calls = <<>>
    /\ storage = NothingStored
    /\ token = {}
    /\ user = {}

LinkComplete(t, u) == t # {} /\ t # {""} /\ u # {}

\* C13: a deep-link callback whose parameters hold a token and a
\* JSON-encoded user signs the session in with that token and user and
\* persists both under auth_token and user in the form login() uses; a
\* callback that lacks the token or the user (or whose user is not JSON,
\* the handler throwing before it writes) changes neither the session nor
\* persisted storage.
C13_DeepLinkSignsIn ==
    /\ [](ev.act = "DeepLink" =>
            \A a \in ev.arg :
                (LinkComplete(a[1], a[2]) /\ \A x \in a[2] : x[1] = "json")
                => /\ token = a[1]
                   /\ user = {x[2] : x \in a[2]}
                   /\ storage.auth_token = a[1]
                   /\ storage.user = {Stringify(w) : w \in user}
                   /\ \E b \in AuthBodies :
                         storage.user = {Stringify(b.user)})
    /\ [][ev'.act = "DeepLink" =>
            \A a \in ev'.arg :
                ~(LinkComplete(a[1], a[2]) /\ \A x \in a[2] : x[1] = "json")
                => UNCHANGED <<storage, token, user>>]_vars

C13_Witness ==
    /\ ev.act = "DeepLink"
    /\ token = {"tg"}
    /\ user = {[id |-> "2", email |-> "b@x", name |-> "B"]}
    /\ storage.auth_token = {"tg"}
    /\ storage.user = {Stringify([id |-> "2", email |-> "b@x", name |-> "B"])}

----------------------------------------------------------------------------
(* Claims about failed store requests, checked under MutSpec and AppleSpec *)

Quiet == {404, 422}

\* C14 as stated: when a store request fails with an HTTP answer, an alert
\* is raised for a status other than 404 and 422 and no alert at all for
\* 404 and 422, and the error is re-rejected.
C14_NoAlertOn404And422 ==
    (ev.act = "HttpFail" /\ ev.op \in MutOps) =>
        \A e \in ev.err : \A st \in e.status :
            /\ st \notin Quiet => Len(ev.alerts) >= 1
            /\ st \in Quiet => ev.alerts = <<>>
            /\ ev.out = "rejected"

\* C14 amended: the response interceptor raises one alert for an HTTP
\* answer whose status is neither 404 nor 422 and none for 404 and 422,
\* and always hands the error on to the store operation; updateEvent then
\* raises an alert of its own on 422 ('Validation Error') and on 404
\* ('Event Not Found'), the other mutating operations raise none; the
\* mutating operations re-throw the error, fetchEvents swallows it.
C14_AlertsByStatus ==
    /\ (ev.act = "HttpFail" /\ ev.op \in MutOps) =>
          \A e \in ev.err : \A st \in e.status :
              /\ st \notin Quiet => ev.alerts = <<"Error">>
              /\ (st \in Quiet /\ ev.op # "updateEvent") => ev.alerts = <<>>
              /\ (st = 422 /\ ev.op = "updateEvent")
                    => ev.alerts = <<"Validation Error">>
              /\ (st = 404 /\ ev.op = "updateEvent")
                    => ev.alerts = <<"Event Not Found">>
              /\ ev.out = "rejected"
              /\ ev.thrown = {e}
    /\ ev.act = "FetchFail" =>
          \A e \in ev.err : \A st \in e.status :
              /\ st \notin Quiet => ev.alerts = <<"Error">>
              /\ st \in Quiet => ev.alerts = <<>>
              /\ ev.out = "resolved"
              /\ ev.thrown = {}

C14_Witness ==
    /\ ev.act = "HttpFail"
    /\ ev.op = "updateEvent"
    /\ ev.err = {[status |-> {422}]}
    /\ ev.alerts = <<"Validation Error">>
    /\ ev.out = "rejected"

\* C15 as stated: every authenticated request carries `Bearer <token>` with
\* the non-empty token persisted under auth_token; none goes out while no
\* token is stored.
C15_BearerTokenStored ==
    ev.hdr # {} =>
        /\ storage.auth_token # {}
        /\ \A t \in storage.auth_token : t # "" /\ ev.hdr = {"Bearer " \o t}

\* C16: a deleteEvent() whose DELETE is answered 404 rejects with that
\* error, raises no alert, and no step of it writes the events list.
C16_DeleteMissingRejects ==
    [][/\ (ev'.op = "deleteEvent"
            /\ ev'.act \in {"MutStart", "MutToken", "HttpFail"})
          => events' = events
       /\ (ev'.op = "deleteEvent" /\ ev'.act = "HttpFail"
            /\ ev'.err = {[status |-> {404}]})
          => /\ ev'.out = "rejected"
             /\ ev'.thrown = {[status |-> {404}]}
             /\ ev'.alerts = <<>>]_vars

C16_Witness ==
    /\ ev.act = "HttpFail"
    /\ ev.op = "deleteEvent"
    /\ ev.err = {[status |-> {404}]}
    /\ ev.out = "rejected"
    /\ events = <<1>>

----------------------------------------------------------------------------
(* Claims about the create and edit forms, checked under FormSpec *)

Blank(t) == \A i \in 1..Len(t) : t[i] = " "

Later(a, b) == \E x \in a, y \in b : x > y

\* C17: the create and edit forms make no store call when the title is
\* blank or the end is not after the start, and every payload they hand to
\* createEvent / updateEvent has a non-empty title and an end_time after
\* its start_time.
C17_FormsValidate ==
    /\ [][ev'.act \in {"FormRejected", "FormSubmit"} =>
            \A a \in ev'.arg :
                (Blank(a.input.title) \/ ~Later(a.input.end, a.input.start))
                => /\ calls' = calls
                   /\ ev'.act = "FormRejected"
                   /\ a.payload = {}]_vars
    /\ [](ev.act = "FormSubmit" =>
            /\ Len(calls) = 1
            /\ calls[1].op \in {"createEvent", "updateEvent"}
            /\ \A a \in ev.arg :
                  /\ a.payload # {}
                  /\ \A p \in a.payload :
                        /\ Len(p.title) > 0
                        /\ p.title[1] # " " /\ p.title[Len(p.title)] # " "
                        /\ p.end_time[2] > p.start_time[2])

C17_Witness ==
    /\ ev.act = "FormSubmit"
    /\ ev.op = "updateEvent"
    /\ Len(calls) = 1
    /\ \E a \in ev.arg :
          /\ a.input.title = <<" ", "a">>
          /\ a.input.start = {1} /\ a.input.end = {2}
          /\ \E p \in a.payload : p.title = <<"a">>

----------------------------------------------------------------------------
(* Claims about the events screen, checked under ViewSpec *)

\* the instant a timestamp denotes, if it denotes one
Instant(t) == IF t[1] = "iso" THEN {t[2]} ELSE {}

StartOfToday(now) == CHOOSE m \in 0..now :
    m % DayLen = 0 /\ m <= now /\ now < m + DayLen

SameMonth(x, y) ==
    \E k \in 0..MaxTime :
        /\ k * DayLen * MonthDays <= x /\ x < (k + 1) * DayLen * MonthDays
        /\ k * DayLen * MonthDays <= y /\ y < (k + 1) * DayLen * MonthDays

\* C18: under the upcoming filter an event is shown exactly when its start
\* is at or after the start of today and (on the screen with a month
\* scope) falls in the selected month; isFuture(start) || isToday(start) is
\* the same as start >= start-of-today for every start and every now.
C18_UpcomingFromStartOfToday ==
    (ev.act = "Filter" /\ ev.op = "upcoming") =>
        \A a \in ev.arg :
            LET start == Instant(a.event.start_time) IN
            /\ (ev.ret = "shown") <=>
                  \E x \in start :
                      /\ x >= StartOfToday(a.now)
                      /\ a.screen = "events.tsx"
                            => SameMonth(x, a.selectedMonth)
            /\ (IsFuture(start, a.now) \/ IsToday(start, a.now)) <=>
                  \E x \in start : x >= StartOfToday(a.now)

C18_Witness ==
    /\ ev.act = "Filter"
    /\ ev.op = "upcoming"
    /\ ev.ret = "shown"
    /\ \E a \in ev.arg :
          /\ a.screen = "events.tsx"
          /\ a.event.start_time = <<"iso", 2>>
          /\ a.now = 3
          /\ a.selectedMonth = 0

\* C19: under the past filter an event is shown only if its end is
\* strictly before now; an event that ends exactly now, or later, or whose
\* end is no timestamp, is not shown.
C19_PastStrictlyBeforeNow ==
    (ev.act = "Filter" /\ ev.op = "past") =>
        \A a \in ev.arg :
            LET end == Instant(a.event.end_time) IN
            /\ ev.ret = "shown" => \E x \in end : x < a.now
            /\ (\A x \in end : x >= a.now) => ev.ret = "hidden"
            /\ a.screen = "part_001" =>
                  ((ev.ret = "shown") <=> \E x \in end : x < a.now)

C19_Witness ==
    /\ ev.act = "Filter"
    /\ ev.op = "past"
    /\ ev.ret = "hidden"
    /\ \E a \in ev.arg :
          /\ a.screen = "part_001"
          /\ a.event.end_time = <<"iso", 3>>
          /\ a.now = 3

----------------------------------------------------------------------------
(* Claim about the backend URL, checked under ConfigSpec *)

Unresolved(c) == c.extra \in {{}, {""}} /\ c.env \in {{}, {""}}

\* C20 as stated: a request issued while the configuration resolves no
\* backend URL fails with a configuration error instead of being sent, and
\* no request goes to a URL built from an undefined host.
C20_FailsFastWithoutUrl ==
    ev.act = "Request" =>
        \A a \in ev.arg :
            /\ Unresolved(a.config) => ev.out = "rejected"
            /\ ev.out = "sent" => ev.ret # "undefined" \o a.path

----------------------------------------------------------------------------
(* Claims about the settled filter, checked under ToggleOkSpec *)

\* C21: after toggleSource calls, once no fetchEvents() is in flight and
\* every request has succeeded, the events list is the response to a
\* request that carried the current selectedSources.
C21_SettledListMatchesFilter ==
    (calls = <<>> /\ ev.act = "FetchSucceed") => ev.src = {selectedSources}

----------------------------------------------------------------------------
(* Claims about termination, checked under FairSpec *)

\* C22: if every request eventually completes and fetchEvents() calls stop
\* being started, then from any state with isLoading true the store
\* eventually reaches and stays in a state with isLoading false, whether
\* the requests succeed or fail.
C22_LoadingEventuallyClears ==
    (<>[][~FetchStart]_vars) => [](isLoading => <>[](~isLoading))

\* a fetch that started while another was outstanding has failed, nothing
\* is in flight any more and the flag is down
C22_Witness ==
    /\ ev.act = "FetchFail"
    /\ calls = <<>>
    /\ ~isLoading

----------------------------------------------------------------------------
(* Claims about the calendar screen and invalid timestamps, checked under *)
(* ViewSpec                                                               *)

NoInstant(e) == Instant(e.start_time) = {} \/ Instant(e.end_time) = {}

\* C23 as stated: an event whose start_time or end_time is no timestamp is
\* left out of the filtered list and of the day view, and no render of the
\* events screen or of the calendar screen (marked dates included) faults
\* because of it.
C23_InvalidStampsExcluded ==
    /\ ev.act = "Filter" =>
          /\ ev.out # "thrown"
          /\ \A a \in ev.arg : NoInstant(a.event) => ev.ret = "hidden"
    /\ ev.act = "Calendar" =>
          /\ ev.out # "thrown"
          /\ \A a \in ev.arg : \A i \in 1..Len(a.selectedDateEvents) :
                ~NoInstant(a.selectedDateEvents[i])

\* the day an instant falls on
DayOf(x) == x \div DayLen

\* C24: the day view lists exactly the events of the aggregate list whose
\* start falls on the calendar day of selectedDate, whatever the time of
\* day of either, in the order of the list; the filter tab and the month of
\* the events screen play no part in it.
C24_DayViewByCalendarDay ==
    ev.act = "Calendar" =>
        \A a \in ev.arg :
            /\ a.selectedDateEvents =
                  SelectSeq(a.input.events,
                            LAMBDA e : \E x \in Instant(e.start_time) :
                                DayOf(x) = DayOf(a.input.selectedDate))
            /\ \A i \in 1..Len(a.selectedDateEvents) :
                  \A x \in Instant(a.selectedDateEvents[i].start_time) :
                      /\ x - a.input.selectedDate < DayLen
                      /\ a.input.selectedDate - x < DayLen

\* the selected date is the first instant of a day; of an event starting
\* at the last instant of the day before and one starting at the last
\* instant of the selected day, only the second is listed
C24_Witness ==
    /\ ev.act = "Calendar"
    /\ ev.out = "rendered"
    /\ \E a \in ev.arg :
          /\ a.input.selectedDate = DayLen
          /\ Len(a.input.events) = 2
          /\ a.input.events[1].start_time = <<"iso", DayLen - 1>>
          /\ a.input.events[2].start_time = <<"iso", 2 * DayLen - 1>>
          /\ a.selectedDateEvents = <<a.input.events[2]>>

----------------------------------------------------------------------------
(* Claims about the appleConnected flag, checked under AppleSpec *)

\* C25: after every successful fetchEvents(), appleConnected is true exactly
\* when the apple_events bucket of the response is non-empty or the response
\* carries apple_connected === true, whatever the flag was before.
C25_FlagFromResponse ==
    ev.act = "FetchSucceed" =>
        \A r \in ev.resp :
            appleConnected <=>
                (Carried(r, "apple_events") # <<>> \/ TRUE \in r.apple_connected)

\* the refresh of a successful connect, which had set the flag, answers
\* with an empty apple bucket and apple_connected false: the flag is down
C25_Witness ==
    /\ ev.act = "FetchSucceed"
    /\ ev.op = "connectAppleCalendar"
    /\ \E r \in ev.resp :
          r.apple_events = {<<>>} /\ r.apple_connected = {FALSE}
    /\ ~appleConnected

\* C26 as stated: once connectAppleCalendar(credentials) has returned true,
\* appleConnected is true in the store.
C26_ConnectedAfterConnect ==
    (ev.op = "connectAppleCalendar" /\ ev.out = "resolved" /\ ev.ret = "true")
        => appleConnected

----------------------------------------------------------------------------
(* Claim about a refresh that fails, checked under MutSeqSpec *)

\* C27: a createEvent, updateEvent, deleteEvent or respondToInvite call
\* whose own request succeeded resolves, without a value and without an
\* error, also when the fetchEvents() that follows fails; no step of the
\* call from its start to that failure touches the events list, which
\* therefore still holds what it held before the call.
C27_FailedRefreshResolves ==
    /\ [](((ev.act = "FetchFail" /\ ev.op \in MutOps)
            => (ev.out = "resolved" /\ ev.thrown = {} /\ ev.ret = "undefined")))
    /\ [][(ev'.op \in MutOps /\ ev'.act # "FetchSucceed")
            => events' = events]_vars

\* a list loaded by an earlier refresh is still there after a createEvent
\* whose refresh got a 500
C27_Witness ==
    /\ ev.act = "FetchFail"
    /\ ev.op = "createEvent"
    /\ ev.err = {[status |-> {500}]}
    /\ ev.out = "resolved"
    /\ events = <<1>>
    /\ calls = <<>>

----------------------------------------------------------------------------
(* Claims about sign-in and sign-out overlapping, checked under           *)
(* AuthFairSpec                                                           *)

SignedOut == token = {} /\ user = {} /\ storage = NothingStored

\* C28 as stated: once logout() has completed the session stays signed-out
\* (token and user null, nothing persisted) until a sign-in that began
\* after it succeeds.  In particular, after a logout that completed with
\* nothing persisted, the session is signed-out for ever unless a login(),
\* a register() or a deep-link callback begins later: a login() or
\* register() already in flight cannot change it.
C28_LogoutIsFinal ==
    []((ev.act = "LogoutDone" /\ ~ev.late)
        => ([]SignedOut \/ <>(ev.act \in {"AuthStart", "DeepLink"})))

----------------------------------------------------------------------------
(* Claim about the order of the writes of a sign-in, checked under        *)
(* AuthSeqSpec                                                            *)

\* C29: login() and register() have persisted the token and the user
\* record before the step that signs the in-memory session in and resolves
\* the call; a store request issued while the session is signed-in carries
\* the token of that session, read from storage.
C29_PersistedBeforeSignedIn ==
    /\ [][ev'.act = "AuthSignedIn" =>
            /\ storage' = storage
            /\ token' # {} /\ user' # {}
            /\ storage.auth_token = token'
            /\ storage.user = {Stringify(u) : u \in user'}
            /\ ev'.out = "resolved"]_vars
    /\ [][ev'.act \in {"AuthPostOk", "AuthStoreUser"} =>
            (token' = token /\ user' = user /\ ev'.out = "pending")]_vars
    /\ []((ev.act = "FetchToken" /\ token # {}) => ev.hdr = {Bearer(token)})

\* after register() or login() of the second account has resolved, a
\* fetchEvents() sends that account's token
C29_Witness ==
    /\ ev.act = "FetchToken"
    /\ token = {"t2"}
    /\ ev.hdr = {"Bearer t2"}
    /\ storage.user = {Stringify(u) : u \in user}

----------------------------------------------------------------------------
(* Claim about the Microsoft callback listeners, checked under ConnectSpec *)

\* C30 as stated: one arriving OAuth callback (a URL containing
\* 'microsoft/callback') invokes onConnected at most once, and once it has
\* been handled no listener registered by handleConnect remains
\* subscribed, however often handleConnect ran before.
C30_CallbackHandledOnce ==
    (ev.act = "Url" /\ \E url \in ev.arg : IncludesCallback(url)) =>
        /\ ev.onConnected <= 1
        /\ \A i \in 1..Len(calls) : ~IsListener(calls[i])

====
